---- MODULE Spec2Model ----
(***************************************************************************)
(* Inventory ledger and stock-adjustment engine of the product service.    *)
(*                                                                         *)
(* The store is MongoDB: the products collection and the                   *)
(* inventory_operations collection (the ledger).  A call of                *)
(* ProductService.UpdateInventory is a process that walks through the      *)
(* facade (operation type validation, CheckStock pre-check) and then       *)
(* through ProductRepository.UpdateInventory, whose statements run in one  *)
(* multi-document transaction: reads see the snapshot taken by the         *)
(* transaction's first operation, writes stay private until the commit,    *)
(* and a write to a document that another transaction has written since    *)
(* the snapshot fails with a write conflict (first updater wins).  The     *)
(* repository never retries and declares no unique index on operation_id.  *)
(***************************************************************************)
EXTENDS Integers, FiniteSets, Sequences, TLC

\* ---------------------------------------------------------------- bounds
MaxCalls == 2      \* UpdateInventory calls per behaviour
MaxDelta == 1      \* quantityChange ranges over -MaxDelta..MaxDelta, 0 left out
MaxQty == 1        \* CreateProduct quantity ranges over 0..MaxQty
MaxReserved == 1   \* CreateProduct reserved ranges over 0..MaxReserved
MaxUpdates == 1    \* UpdateProduct calls per behaviour
MaxReplays == 1    \* further UpdateInventory calls where a key is replayed

Calls == 1..MaxCalls
AllCalls == 1..(MaxCalls + MaxReplays)
Updaters == 1..MaxUpdates
Deltas == ((0 - MaxDelta)..MaxDelta) \ {0}
StockRequests == 0..(MaxQty + 1)   \* quantities asked of CheckStock

\* ListProductsParams.Page and PageSize of the requests, and the values of
\* the page and page_size query parameters
MaxPage == 1
MaxPageSize == 2
Pages == -1..MaxPage
PageSizes == -1..MaxPageSize
QueryValues == {"", "abc"} \cup {ToString(n) : n \in Pages \cup PageSizes}
DefaultPageSize == 20
RestDefaultPageSize == 20

ProductIDs == {"p1", "p2"}
OperationIDs == {"", "op1", "op2"}

\* a vocabulary that lets an unknown operation type through
validOperationTypesLoose ==
    {"purchase", "restock", "reservation", "release", "adjustment", "refund"}

validOperationTypes == {"purchase", "restock", "reservation", "release", "adjustment"}
OperationTypes ==
    {"purchase", "restock", "reservation", "release", "adjustment", "refund"}

\* error values returned by the handlers ("" is a nil error)
ErrInvalidOperation == "invalid operation type"
ErrInsufficientStock == "insufficient stock"
ErrStockCheck == "stock check error: product not found"
ErrNoDocuments == "repository error: mongo: no documents in result"
ErrWriteConflict == "repository error: write conflict"
ErrDeadline == "repository error: context deadline exceeded"
ErrProductNotFound == "repository error: product not found"
ErrDuplicateKey == "E11000 duplicate key error"

\* ------------------------------------------------------------ data model
\* timestamps: the zero time.Time and a value of time.Now()
ZeroTime == "0001-01-01T00:00:00Z"
Now == "now"

\* A stored product document: the inventory and the catalog fields that
\* UpdateProduct writes (image URLs and attributes are handled like tags
\* and left out); exists = FALSE stands for "no document with this _id";
\* ver is the storage engine's commit stamp of the document.
NoProduct ==
    [exists |-> FALSE, quantity |-> 0, reserved |-> 0, inStock |-> FALSE,
     sku |-> "", ver |-> 0, name |-> "", description |-> "", price |-> 0,
     category |-> "", tags |-> {}, active |-> FALSE, id |-> "",
     createdAt |-> ZeroTime, updatedAt |-> ZeroTime]

\* domain.InventoryInfo as returned to the caller
InventoryInfo(p) ==
    [quantity |-> p.quantity, sku |-> p.sku, inStock |-> p.inStock,
     reserved |-> p.reserved]

NoInventory == [quantity |-> 0, sku |-> "", inStock |-> FALSE, reserved |-> 0]

\* domain.InventoryOperation; id is the _id the store generates on insert
InventoryOperation(c, productID, quantityChange, operationID, operationType) ==
    [id |-> c, product_id |-> productID, quantity_change |-> quantityChange,
     operation_id |-> operationID, operation_type |-> operationType]

NoArgs == [productID |-> "p1", quantityChange |-> 0, operationID |-> "",
           operationType |-> "adjustment"]

VARIABLES
    products,      \* products collection: ProductIDs -> document
    ledger,        \* inventory_operations collection: set of InventoryOperation
    pc,            \* AllCalls -> position of the call in UpdateInventory
    args,          \* AllCalls -> arguments of the call
    txn,           \* AllCalls -> the call's transaction: snapshot and private writes
    ret,           \* AllCalls -> (updatedInventory, err) returned by the call
    trace,         \* AllCalls -> what the call did to the store (history)
    upd,           \* Updaters -> state of an UpdateProduct call
    created,       \* ProductIDs -> the document as CreateProduct stored it (history)
    stock,         \* what the last ProductService.CheckStock call returned
    createRet,     \* what the last ProductService.CreateProduct call was given
                   \* and returned
    list,          \* what the last ListProducts request asked for, queried
                   \* and answered
    via            \* AllCalls -> the transport handler that made the call and
                   \* the operation id of the client's request (history)

vars == <<products, ledger, pc, args, txn, ret, trace, upd, created, stock, createRet, list, via>>

NoTxn ==
    [snap |-> NoProduct, local |-> NoProduct, insertedOp |-> FALSE,
     state |-> "none"]
\* the session of a call whose transaction the store has ended this way
Ended(state) == [NoTxn EXCEPT !.state = state]
NoRet == [inventory |-> NoInventory, nil |-> TRUE, err |-> ""]
NoTrace ==
    [checked |-> FALSE, avail |-> 0, repoCalled |-> FALSE, novel |-> FALSE,
     applied |-> FALSE, after |-> {}]
NoCreateRet ==
    [called |-> FALSE, name |-> "", price |-> 0, category |-> "", sku |-> "",
     active |-> FALSE, inStock |-> FALSE,
     repoCalled |-> FALSE, kind |-> "", err |-> ""]
NoStock ==
    [called |-> FALSE, productID |-> "p1", quantity |-> 0, available |-> FALSE,
     current |-> 0, err |-> ""]
NoList ==
    [called |-> FALSE, via |-> "", page |-> 0, pageSize |-> 0,
     queryPage |-> 0, queryPageSize |-> 0, total |-> 0, count |-> 0,
     paged |-> FALSE, divisor |-> 0, totalPages |-> 0, panic |-> FALSE]
NoVia == [transport |-> "", operationID |-> ""]
\* the product passed to UpdateProduct, every field at its zero value
NoUpdate ==
    [name |-> "", description |-> "", price |-> 0, category |-> "",
     tags |-> {}, sku |-> "", active |-> FALSE]
NoUpd ==
    [pc |-> "idle", productID |-> "p1", product |-> NoUpdate,
     existing |-> NoProduct]

Init ==
    /\ products = [p \in ProductIDs |-> NoProduct]
    /\ ledger = {}
    /\ pc = [c \in AllCalls |-> "idle"]
    /\ args = [c \in AllCalls |-> NoArgs]
    /\ txn = [c \in AllCalls |-> NoTxn]
    /\ ret = [c \in AllCalls |-> NoRet]
    /\ trace = [c \in AllCalls |-> NoTrace]
    /\ upd = [u \in Updaters |-> NoUpd]
    /\ created = [p \in ProductIDs |-> NoProduct]
    /\ stock = NoStock
    /\ createRet = NoCreateRet
    /\ list = NoList
    /\ via = [c \in AllCalls |-> NoVia]

\* A transaction holds the write lock of the product document from its
\* FindOneAndUpdate until it commits or aborts.
\* the transaction of a session once a statement of it has reached the store
InProgress(t) == [t EXCEPT !.state = "in progress"]

\* the transaction of a session after CommitTransaction has succeeded
CommitTransaction(t) == [t EXCEPT !.state = "committed"]

\* a session end that leaves the transaction as it is
EndSessionLeavesOpen(t) == t

\* session.EndSession, deferred by ProductRepository.UpdateInventory: it
\* aborts the transaction when one is in progress and drops the session
EndSession(t) ==
    IF t.state = "in progress" THEN Ended("aborted") ELSE Ended(t.state)

HoldsLock(c, p) == pc[c] \in {"flag", "commit"} /\ args[c].productID = p

Locked(p) == \E c \in AllCalls : HoldsLock(c, p)

\* ------------------------------------------------------- pure functions
\* Go's integer division, which truncates toward zero; b is not zero
Quo(a, b) ==
    LET abs(x) == IF x < 0 THEN 0 - x ELSE x
        q == abs(a) \div abs(b)
    IN  IF (a < 0) = (b < 0) THEN q ELSE 0 - q

\* strconv.Atoi on the query values of QueryValues
Atoi(value) ==
    IF \E n \in Pages \cup PageSizes : ToString(n) = value
    THEN [n |-> CHOOSE n \in Pages \cup PageSizes : ToString(n) = value,
          ok |-> TRUE]
    ELSE [n |-> 0, ok |-> FALSE]

\* parseInt of the REST handlers
parseInt(value, defaultValue) ==
    IF value = "" THEN defaultValue
    ELSE IF ~Atoi(value).ok THEN defaultValue
    ELSE Atoi(value).n

\* ProductService.ListProducts, the defaults applied to its copy of params
ListDefaults(page, pageSize) ==
    [page |-> IF page < 0 THEN 0 ELSE page,
     pageSize |-> IF pageSize <= 0 THEN DefaultPageSize ELSE pageSize]

\* ProductRepository.List: the number of matching documents, and the limit,
\* skip and number of documents of the page (documents themselves and their
\* order are left out)
List(page, pageSize, inStockOnly) ==
    LET total == Cardinality({p \in ProductIDs :
                     /\ products[p].exists
                     /\ inStockOnly => products[p].inStock})
        skip == IF pageSize > 0 THEN page * pageSize ELSE 0
        rest == IF total > skip THEN total - skip ELSE 0
    IN  [total |-> total,
         count |-> IF pageSize > 0 /\ pageSize < rest THEN pageSize ELSE rest]

\* a validation that looks at the price before the name
validateProductPriceFirst(name, price, category, sku) ==
    IF price <= 0 THEN "product price must be greater than zero"
    ELSE IF name = "" THEN "product name is required"
    ELSE IF category = "" THEN "product category is required"
    ELSE IF sku = "" THEN "product SKU is required"
    ELSE ""

\* validateProduct: the first failing check, "" when the product is valid
validateProduct(name, price, category, sku) ==
    IF name = "" THEN "product name is required"
    ELSE IF price <= 0 THEN "product price must be greater than zero"
    ELSE IF category = "" THEN "product category is required"
    ELSE IF sku = "" THEN "product SKU is required"
    ELSE ""

\* a stock check that counts the reserved units as available
CheckStockUnreserved(productID, quantity) ==
    LET product == products[productID]
    IN  [found |-> product.exists,
         available |-> product.quantity >= quantity,
         current |-> product.quantity]

\* ProductRepository.CheckStock on the committed document of productID
CheckStock(productID, quantity) ==
    LET product == products[productID]
        availableQuantity == product.quantity - product.reserved
    IN  [found |-> product.exists,
         available |-> availableQuantity >= quantity,
         current |-> availableQuantity]

\* a lookup that never finds the recorded operation
FindOperationNever(operationID) == {e \in ledger : FALSE}

\* FindOne on inventory_operations by operation_id
FindOperation(operationID) == {e \in ledger : e.operation_id = operationID}

\* a pre-check that applies to purchases only
NeedsStockCheckPurchase(operationType, quantityChange) ==
    /\ operationType = "purchase"
    /\ quantityChange < 0

\* the pre-check of ProductService.UpdateInventory applies to these calls
NeedsStockCheck(operationType, quantityChange) ==
    /\ operationType \in {"purchase", "reservation"}
    /\ quantityChange < 0

\* first-updater-wins: the document changed since the snapshot, or another
\* transaction holds an uncommitted write on it
WriteConflict(c, snap) ==
    \/ products[args[c].productID].ver # snap.ver
    \/ \E d \in AllCalls \ {c} : HoldsLock(d, args[c].productID)

\* a repository that looks every operation id up, the empty one too
RepoEntryAlwaysFind(operationID) == "find"

\* the errors a caller can tell as "not found": the ones whose text holds
\* these words (the test the REST handlers make)
IsNotFound(err) == err \in {ErrStockCheck, ErrProductNotFound}

\* position at which ProductRepository.UpdateInventory starts its transaction
RepoEntry(operationID) == IF operationID # "" THEN "find" ELSE "inc"

Fail(e) == [inventory |-> NoInventory, nil |-> TRUE, err |-> e]
Ok(p) == [inventory |-> InventoryInfo(p), nil |-> FALSE, err |-> ""]

\* the products callers submit to CreateProduct: every inventory the
\* bounds allow on a valid product, with or without an id and with either
\* active flag; the ones the transports submit (no id, no active flag);
\* and the products failing a validation
DirectInputs ==
    [name : {"n"}, description : {"d"}, price : {1}, category : {"c"},
     tags : {{"t"}}, sku : {"sku1"}, id : {""} \cup ProductIDs,
     active : BOOLEAN,
     quantity : 0..MaxQty, reserved : 0..MaxReserved, inStock : BOOLEAN]

ValidInputs == {in \in DirectInputs : in.id = "" /\ ~in.active}

InvalidInputs ==
    {in \in [name : {"", "n"}, description : {"d"}, price : {0, 1},
             category : {"", "c"}, tags : {{"t"}}, sku : {"", "sku1"},
             id : {""}, active : {FALSE},
             quantity : {MaxQty}, reserved : {0}, inStock : {TRUE}] :
        validateProduct(in.name, in.price, in.category, in.sku) # ""}

ProductInputs == DirectInputs \cup InvalidInputs

\* the products callers submit to UpdateProduct: every choice of supplied
\* and omitted fields, and the ones that at most rename the SKU of an
\* active product
UpdateInputs ==
    [name : {"", "n2"}, description : {"", "d2"}, price : {0, 2},
     category : {"", "c2"}, tags : {{}, {"t2"}}, sku : {"", "sku2"},
     active : BOOLEAN]

SkuUpdates ==
    {in \in UpdateInputs :
        /\ in.name = "" /\ in.description = "" /\ in.price = 0
        /\ in.category = "" /\ in.tags = {} /\ in.active}

\* ------------------------------------------------------------- actions
\* a creation that stores the active flag the caller passed
CreateProductKeepsActive(p, in) ==
    /\ LET msg == validateProduct(in.name, in.price, in.category, in.sku)
           r == [NoCreateRet EXCEPT !.called = TRUE, !.name = in.name,
                   !.price = in.price, !.category = in.category,
                   !.sku = in.sku, !.active = in.active,
                   !.inStock = in.inStock]
           doc == [exists |-> TRUE, quantity |-> in.quantity,
                   reserved |-> in.reserved, inStock |-> in.quantity > 0,
                   sku |-> in.sku, ver |-> 1, name |-> in.name,
                   description |-> in.description, price |-> in.price,
                   category |-> in.category, tags |-> in.tags,
                   active |-> in.active, id |-> p,
                   createdAt |-> Now, updatedAt |-> Now]
       IN  /\ msg = "" => \/ in.id = p
                          \/ in.id = "" /\ ~products[p].exists
           /\ IF msg # ""
              THEN /\ createRet' = [r EXCEPT !.kind = "validation error",
                                             !.err = msg]
                   /\ UNCHANGED <<products, created>>
              ELSE IF products[p].exists
              THEN /\ createRet' = [r EXCEPT !.repoCalled = TRUE,
                                             !.kind = "repository error",
                                             !.err = ErrDuplicateKey]
                   /\ UNCHANGED <<products, created>>
              ELSE /\ createRet' = [r EXCEPT !.repoCalled = TRUE]
                   /\ products' = [products EXCEPT ![p] = doc]
                   /\ created' = [created EXCEPT ![p] = doc]
    /\ UNCHANGED <<ledger, pc, args, txn, ret, trace, upd, stock, list, via>>

\* ProductService.CreateProduct followed by ProductRepository.Create; in is
\* the product the caller passes and p the _id it gets: the id of in, or,
\* when in has none, a fresh one from NewObjectID
CreateProduct(p, in) ==
    /\ LET msg == validateProduct(in.name, in.price, in.category, in.sku)
           r == [NoCreateRet EXCEPT !.called = TRUE, !.name = in.name,
                   !.price = in.price, !.category = in.category,
                   !.sku = in.sku, !.active = in.active,
                   !.inStock = in.inStock]
           doc == [exists |-> TRUE, quantity |-> in.quantity,
                   reserved |-> in.reserved, inStock |-> in.quantity > 0,
                   sku |-> in.sku, ver |-> 1, name |-> in.name,
                   description |-> in.description, price |-> in.price,
                   category |-> in.category, tags |-> in.tags,
                   active |-> TRUE, id |-> p,
                   createdAt |-> Now, updatedAt |-> Now]
       IN  /\ msg = "" => \/ in.id = p
                          \/ in.id = "" /\ ~products[p].exists
           /\ IF msg # ""
              THEN /\ createRet' = [r EXCEPT !.kind = "validation error",
                                             !.err = msg]
                   /\ UNCHANGED <<products, created>>
              ELSE IF products[p].exists
              THEN /\ createRet' = [r EXCEPT !.repoCalled = TRUE,
                                             !.kind = "repository error",
                                             !.err = ErrDuplicateKey]
                   /\ UNCHANGED <<products, created>>
              ELSE /\ createRet' = [r EXCEPT !.repoCalled = TRUE]
                   /\ products' = [products EXCEPT ![p] = doc]
                   /\ created' = [created EXCEPT ![p] = doc]
    /\ UNCHANGED <<ledger, pc, args, txn, ret, trace, upd, stock, list, via>>

\* ProductService.UpdateProduct, first half: GetByID; product is the
\* product the caller passes
UpdateProductRead(u, p, product) ==
    /\ upd[u].pc = "idle"
    /\ upd' = [upd EXCEPT ![u] =
          IF products[p].exists
          THEN [pc |-> "replace", productID |-> p, product |-> product,
                existing |-> products[p]]
          ELSE [NoUpd EXCEPT !.pc = "done"]]
    /\ UNCHANGED <<products, ledger, pc, args, txn, ret, trace, created, stock,
                   createRet, list, via>>

\* ProductService.UpdateProduct, second half: the fields the caller
\* supplied are copied onto the document read before, Active is taken
\* from the caller's product whenever it differs, and
\* ProductRepository.Update replaces the whole stored document by that
\* copy; the write waits while a transaction holds the document.
UpdateProductReplace(u) ==
    /\ upd[u].pc = "replace"
    /\ ~Locked(upd[u].productID)
    /\ LET e == upd[u].existing
           product == upd[u].product
           doc == [e EXCEPT
                     !.name = IF product.name # "" THEN product.name ELSE e.name,
                     !.description = IF product.description # ""
                                     THEN product.description ELSE e.description,
                     !.price = IF product.price > 0 THEN product.price ELSE e.price,
                     !.category = IF product.category # ""
                                  THEN product.category ELSE e.category,
                     !.tags = IF product.tags # {} THEN product.tags ELSE e.tags,
                     !.sku = IF product.sku # "" THEN product.sku ELSE e.sku,
                     !.active = IF product.active # e.active
                                THEN product.active ELSE e.active,
                     !.inStock = e.quantity > 0,
                     !.updatedAt = Now,
                     !.ver = products[upd[u].productID].ver + 1]
       IN  products' = [products EXCEPT ![upd[u].productID] = doc]
    /\ upd' = [upd EXCEPT ![u] = [NoUpd EXCEPT !.pc = "done"]]
    /\ UNCHANGED <<ledger, pc, args, txn, ret, trace, created, stock, createRet, list, via>>

\* ProductService.CheckStock: repo.CheckStock, an error wrapped as a
\* repository error
CheckStockCall(productID, quantity) ==
    /\ LET r == CheckStock(productID, quantity)
       IN  stock' =
              IF ~r.found
              THEN [called |-> TRUE, productID |-> productID,
                    quantity |-> quantity, available |-> FALSE, current |-> 0,
                    err |-> ErrProductNotFound]
              ELSE [called |-> TRUE, productID |-> productID,
                    quantity |-> quantity, available |-> r.available,
                    current |-> r.current, err |-> ""]
    /\ UNCHANGED <<products, ledger, pc, args, txn, ret, trace, upd, created,
                   createRet, list, via>>

\* ProductService.UpdateInventory up to the pre-check: validates the
\* operation type, then either pre-checks or calls the repository
SvcUpdateInventory(c, productID, quantityChange, operationID, operationType) ==
    /\ pc[c] = "idle"
    /\ \A d \in AllCalls : d < c => pc[d] # "idle"
    /\ LET a == [productID |-> productID, quantityChange |-> quantityChange,
                 operationID |-> operationID, operationType |-> operationType]
           t == [NoTrace EXCEPT
                   !.after = {d \in AllCalls : pc[d] = "done"}]
       IN  /\ args' = [args EXCEPT ![c] = a]
           /\ IF operationType \notin validOperationTypes
              THEN /\ pc' = [pc EXCEPT ![c] = "done"]
                   /\ ret' = [ret EXCEPT ![c] = Fail(ErrInvalidOperation)]
                   /\ trace' = [trace EXCEPT ![c] = t]
              ELSE IF NeedsStockCheck(operationType, quantityChange)
              THEN /\ pc' = [pc EXCEPT ![c] = "check"]
                   /\ trace' = [trace EXCEPT ![c] = t]
                   /\ UNCHANGED ret
              ELSE /\ pc' = [pc EXCEPT ![c] = RepoEntry(operationID)]
                   /\ trace' = [trace EXCEPT ![c] = [t EXCEPT !.repoCalled = TRUE]]
                   /\ UNCHANGED ret
    /\ UNCHANGED <<products, ledger, txn, upd, created, stock, createRet, list>>

\* a pre-check whose verdict is ignored: the call goes on to the repository
\* also when the stock is insufficient
SvcCheckStockIgnored(c) ==
    /\ pc[c] = "check"
    /\ LET r == CheckStock(args[c].productID, 0 - args[c].quantityChange)
       IN  IF ~r.found
           THEN /\ pc' = [pc EXCEPT ![c] = "done"]
                /\ ret' = [ret EXCEPT ![c] = Fail(ErrStockCheck)]
                /\ trace' = [trace EXCEPT ![c].checked = TRUE]
           ELSE /\ pc' = [pc EXCEPT ![c] = RepoEntry(args[c].operationID)]
                /\ trace' = [trace EXCEPT ![c].checked = TRUE,
                                          ![c].avail = r.current,
                                          ![c].repoCalled = TRUE]
                /\ UNCHANGED ret
    /\ UNCHANGED <<products, ledger, args, txn, upd, created, stock, createRet, list, via>>

\* ProductService.UpdateInventory, the pre-check: repo.CheckStock(-delta)
SvcCheckStock(c) ==
    /\ pc[c] = "check"
    /\ LET r == CheckStock(args[c].productID, 0 - args[c].quantityChange)
       IN  IF ~r.found
           THEN /\ pc' = [pc EXCEPT ![c] = "done"]
                /\ ret' = [ret EXCEPT ![c] = Fail(ErrStockCheck)]
                /\ trace' = [trace EXCEPT ![c].checked = TRUE]
           ELSE IF ~r.available
           THEN /\ pc' = [pc EXCEPT ![c] = "done"]
                /\ ret' = [ret EXCEPT ![c] = Fail(ErrInsufficientStock)]
                /\ trace' = [trace EXCEPT ![c].checked = TRUE,
                                          ![c].avail = r.current]
           ELSE /\ pc' = [pc EXCEPT ![c] = RepoEntry(args[c].operationID)]
                /\ trace' = [trace EXCEPT ![c].checked = TRUE,
                                          ![c].avail = r.current,
                                          ![c].repoCalled = TRUE]
                /\ UNCHANGED ret
    /\ UNCHANGED <<products, ledger, args, txn, upd, created, stock, createRet, list, via>>

\* a replay that answers with the inventory the product was created with
RepoFindOperationStale(c) ==
    /\ pc[c] = "find"
    /\ LET snap == products[args[c].productID]
       IN  IF FindOperation(args[c].operationID) # {}
           THEN /\ pc' = [pc EXCEPT ![c] = "done"]
                /\ ret' = [ret EXCEPT ![c] =
                      IF snap.exists THEN Ok(created[args[c].productID])
                      ELSE Fail(ErrNoDocuments)]
                /\ txn' = [txn EXCEPT ![c] = EndSession(InProgress(txn[c]))]
                /\ UNCHANGED trace
           ELSE /\ pc' = [pc EXCEPT ![c] = "inc"]
                /\ txn' = [txn EXCEPT ![c] =
                      [snap |-> snap, local |-> NoProduct, insertedOp |-> TRUE,
                       state |-> "in progress"]]
                /\ trace' = [trace EXCEPT ![c].novel = TRUE]
                /\ UNCHANGED ret
    /\ UNCHANGED <<products, ledger, args, upd, created, stock, createRet, list, via>>

\* a lookup of the operation by operation_id and product_id
RepoFindOperationPerProduct(c) ==
    /\ pc[c] = "find"
    /\ LET snap == products[args[c].productID]
       IN  IF \E e \in FindOperation(args[c].operationID) :
                e.product_id = args[c].productID
           THEN /\ pc' = [pc EXCEPT ![c] = "done"]
                /\ ret' = [ret EXCEPT ![c] =
                      IF snap.exists THEN Ok(snap) ELSE Fail(ErrNoDocuments)]
                /\ txn' = [txn EXCEPT ![c] = EndSession(InProgress(txn[c]))]
                /\ UNCHANGED trace
           ELSE /\ pc' = [pc EXCEPT ![c] = "inc"]
                /\ txn' = [txn EXCEPT ![c] =
                      [snap |-> snap, local |-> NoProduct, insertedOp |-> TRUE,
                       state |-> "in progress"]]
                /\ trace' = [trace EXCEPT ![c].novel = TRUE]
                /\ UNCHANGED ret
    /\ UNCHANGED <<products, ledger, args, upd, created, stock, createRet, list, via>>

\* ProductRepository.UpdateInventory, idempotency block: FindOne on the
\* ledger (the transaction's first operation, which takes its snapshot);
\* a hit returns the product of the same snapshot and leaves the
\* transaction to EndSession, a miss inserts the operation privately
RepoFindOperation(c) ==
    /\ pc[c] = "find"
    /\ LET snap == products[args[c].productID]
       IN  IF FindOperation(args[c].operationID) # {}
           THEN /\ pc' = [pc EXCEPT ![c] = "done"]
                /\ ret' = [ret EXCEPT ![c] =
                      IF snap.exists THEN Ok(snap) ELSE Fail(ErrNoDocuments)]
                /\ txn' = [txn EXCEPT ![c] = EndSession(InProgress(txn[c]))]
                /\ UNCHANGED trace
           ELSE /\ pc' = [pc EXCEPT ![c] = "inc"]
                /\ txn' = [txn EXCEPT ![c] =
                      [snap |-> snap, local |-> NoProduct, insertedOp |-> TRUE,
                       state |-> "in progress"]]
                /\ trace' = [trace EXCEPT ![c].novel = TRUE]
                /\ UNCHANGED ret
    /\ UNCHANGED <<products, ledger, args, upd, created, stock, createRet, list, via>>

\* an increment that moves reservations and releases into reserved
RepoFindOneAndUpdateReserves(c) ==
    /\ pc[c] = "inc"
    /\ LET snap == IF args[c].operationID = ""
                   THEN products[args[c].productID] ELSE txn[c].snap
       IN  IF ~snap.exists
           THEN /\ pc' = [pc EXCEPT ![c] = "done"]
                /\ ret' = [ret EXCEPT ![c] = Fail(ErrNoDocuments)]
                /\ txn' = [txn EXCEPT ![c] = EndSession(InProgress(txn[c]))]
                /\ UNCHANGED trace
           ELSE IF WriteConflict(c, snap)
           THEN /\ pc' = [pc EXCEPT ![c] = "done"]
                /\ ret' = [ret EXCEPT ![c] = Fail(ErrWriteConflict)]
                /\ txn' = [txn EXCEPT ![c] = EndSession(InProgress(txn[c]))]
                /\ UNCHANGED trace
           ELSE /\ pc' = [pc EXCEPT ![c] = "flag"]
                /\ txn' = [txn EXCEPT ![c].snap = snap,
                      ![c].state = "in progress",
                      ![c].local = [snap EXCEPT
                                      !.quantity =
                                         snap.quantity + args[c].quantityChange,
                                      !.updatedAt = Now,
                                      !.reserved =
                                         IF args[c].operationType
                                               \in {"reservation", "release"}
                                         THEN snap.reserved
                                                 - args[c].quantityChange
                                         ELSE snap.reserved]]
                /\ UNCHANGED <<ret, trace>>
    /\ UNCHANGED <<products, ledger, args, upd, created, stock, createRet, list, via>>

\* ProductRepository.UpdateInventory, FindOneAndUpdate with $inc and
\* ReturnDocument(After); with an empty operationID it is the first
\* operation of the transaction and takes the snapshot itself
RepoFindOneAndUpdate(c) ==
    /\ pc[c] = "inc"
    /\ LET snap == IF args[c].operationID = ""
                   THEN products[args[c].productID] ELSE txn[c].snap
       IN  IF ~snap.exists
           THEN /\ pc' = [pc EXCEPT ![c] = "done"]
                /\ ret' = [ret EXCEPT ![c] = Fail(ErrNoDocuments)]
                /\ txn' = [txn EXCEPT ![c] = EndSession(InProgress(txn[c]))]
                /\ UNCHANGED trace
           ELSE IF WriteConflict(c, snap)
           THEN /\ pc' = [pc EXCEPT ![c] = "done"]
                /\ ret' = [ret EXCEPT ![c] = Fail(ErrWriteConflict)]
                /\ txn' = [txn EXCEPT ![c] = EndSession(InProgress(txn[c]))]
                /\ UNCHANGED trace
           ELSE /\ pc' = [pc EXCEPT ![c] = "flag"]
                /\ txn' = [txn EXCEPT ![c].snap = snap,
                      ![c].state = "in progress",
                      ![c].local = [snap EXCEPT
                                      !.quantity =
                                         snap.quantity + args[c].quantityChange,
                                      !.updatedAt = Now]]
                /\ UNCHANGED <<ret, trace>>
    /\ UNCHANGED <<products, ledger, args, upd, created, stock, createRet, list, via>>

\* an adjustment that leaves the stored flag as it finds it
RepoKeepInStock(c) ==
    /\ pc[c] = "flag"
    /\ pc' = [pc EXCEPT ![c] = "commit"]
    /\ UNCHANGED <<products, ledger, args, txn, ret, trace, upd, created, stock, createRet, list, via>>

\* ProductRepository.UpdateInventory, in_stock recomputation: UpdateOne
\* inside the transaction when the flag differs from quantity > 0
RepoSetInStock(c) ==
    /\ pc[c] = "flag"
    /\ LET inStock == txn[c].local.quantity > 0
       IN  txn' = [txn EXCEPT ![c].local.inStock =
                      IF inStock # txn[c].local.inStock
                      THEN inStock ELSE txn[c].local.inStock]
    /\ pc' = [pc EXCEPT ![c] = "commit"]
    /\ UNCHANGED <<products, ledger, args, ret, trace, upd, created, stock, createRet, list, via>>

\* a commit after a FindOneAndUpdate that returned the document as it was
\* before the increment
RepoCommitReturnsBefore(c) ==
    /\ pc[c] = "commit"
    /\ LET p == args[c].productID
           a == args[c]
       IN  /\ products' = [products EXCEPT ![p] =
                 [txn[c].local EXCEPT !.ver = products[p].ver + 1]]
           /\ ledger' = IF txn[c].insertedOp
                        THEN ledger \cup {InventoryOperation(c, a.productID,
                                 a.quantityChange, a.operationID, a.operationType)}
                        ELSE ledger
    /\ ret' = [ret EXCEPT ![c] = Ok(txn[c].snap)]
    /\ pc' = [pc EXCEPT ![c] = "done"]
    /\ txn' = [txn EXCEPT ![c] = EndSession(CommitTransaction(txn[c]))]
    /\ trace' = [trace EXCEPT ![c].applied = TRUE]
    /\ UNCHANGED <<args, upd, created, stock, createRet, list, via>>

\* ProductRepository.UpdateInventory, CommitTransaction: the private
\* writes (ledger insert, product document) become visible at once
RepoCommit(c) ==
    /\ pc[c] = "commit"
    /\ LET p == args[c].productID
           a == args[c]
       IN  /\ products' = [products EXCEPT ![p] =
                 [txn[c].local EXCEPT !.ver = products[p].ver + 1]]
           /\ ledger' = IF txn[c].insertedOp
                        THEN ledger \cup {InventoryOperation(c, a.productID,
                                 a.quantityChange, a.operationID, a.operationType)}
                        ELSE ledger
    /\ ret' = [ret EXCEPT ![c] = Ok(txn[c].local)]
    /\ pc' = [pc EXCEPT ![c] = "done"]
    /\ txn' = [txn EXCEPT ![c] = EndSession(CommitTransaction(txn[c]))]
    /\ trace' = [trace EXCEPT ![c].applied = TRUE]
    /\ UNCHANGED <<args, upd, created, stock, createRet, list, via>>

\* a failure that leaves the private ledger insert behind
RepoFailNoRollback(c) ==
    /\ pc[c] \in {"find", "inc", "flag", "commit"}
    /\ pc' = [pc EXCEPT ![c] = "done"]
    /\ ret' = [ret EXCEPT ![c] = Fail(ErrDeadline)]
    /\ ledger' = IF txn[c].insertedOp
                 THEN ledger \cup {InventoryOperation(c, args[c].productID,
                          args[c].quantityChange, args[c].operationID,
                          args[c].operationType)}
                 ELSE ledger
    /\ txn' = [txn EXCEPT ![c] = EndSession(InProgress(txn[c]))]
    /\ UNCHANGED <<products, args, trace, upd, created, stock, createRet, list, via>>

\* a statement of the transaction fails (WriteTimeout deadline, store
\* unavailable): the callback returns the error and EndSession aborts; a
\* CommitTransaction that returns an error is taken as not applied
RepoFail(c) ==
    /\ pc[c] \in {"find", "inc", "flag", "commit"}
    /\ pc' = [pc EXCEPT ![c] = "done"]
    /\ ret' = [ret EXCEPT ![c] = Fail(ErrDeadline)]
    /\ txn' = [txn EXCEPT ![c] = EndSession(InProgress(txn[c]))]
    /\ UNCHANGED <<products, ledger, args, trace, upd, created, stock, createRet, list, via>>

\* ProductService.ListProducts called directly: the defaults, then
\* ProductRepository.List with the defaulted parameters
SvcListProducts(page, pageSize, inStockOnly) ==
    /\ LET params == ListDefaults(page, pageSize)
           r == List(params.page, params.pageSize, inStockOnly)
       IN  list' = [NoList EXCEPT !.called = TRUE, !.via = "service",
                      !.page = page, !.pageSize = pageSize,
                      !.queryPage = params.page,
                      !.queryPageSize = params.pageSize,
                      !.total = r.total, !.count = r.count]
    /\ UNCHANGED <<products, ledger, pc, args, txn, ret, trace, upd, created,
                   stock, createRet, via>>

\* ProductHandler.ListProducts (GET /v1/products): page and page_size are
\* parsed from the query, the service is called with a copy of params, and
\* the total pages are computed from the handler's own params.PageSize; a
\* division by zero panics
RestListProducts(pageValue, pageSizeValue, inStockOnly) ==
    /\ LET page == parseInt(pageValue, 0)
           pageSize == parseInt(pageSizeValue, RestDefaultPageSize)
           params == ListDefaults(page, pageSize)
           r == List(params.page, params.pageSize, inStockOnly)
           pages == IF pageSize = 0 THEN 0
                    ELSE Quo(r.total + pageSize - 1, pageSize)
       IN  list' = [NoList EXCEPT !.called = TRUE, !.via = "rest",
                      !.page = page, !.pageSize = pageSize,
                      !.queryPage = params.page,
                      !.queryPageSize = params.pageSize,
                      !.total = r.total, !.count = r.count,
                      !.paged = TRUE, !.divisor = pageSize,
                      !.panic = (pageSize = 0),
                      !.totalPages = IF pageSize # 0 /\ pages = 0
                                     THEN 1 ELSE pages]
    /\ UNCHANGED <<products, ledger, pc, args, txn, ret, trace, upd, created,
                   stock, createRet, via>>

\* ProductServer.ListProducts (gRPC): the request's page and page size are
\* copied into params, the service is called with a copy of params, and the
\* total pages are computed from req.PageSize; a division by zero panics
GrpcListProducts(page, pageSize, inStockOnly) ==
    /\ LET params == ListDefaults(page, pageSize)
           r == List(params.page, params.pageSize, inStockOnly)
       IN  list' = [NoList EXCEPT !.called = TRUE, !.via = "grpc",
                      !.page = page, !.pageSize = pageSize,
                      !.queryPage = params.page,
                      !.queryPageSize = params.pageSize,
                      !.total = r.total, !.count = r.count,
                      !.paged = TRUE, !.divisor = pageSize,
                      !.panic = (pageSize = 0),
                      !.totalPages = IF pageSize = 0 THEN 0
                                     ELSE Quo(r.total + pageSize - 1, pageSize)]
    /\ UNCHANGED <<products, ledger, pc, args, txn, ret, trace, upd, created,
                   stock, createRet, via>>

\* ProductHandler.UpdateInventory (POST /v1/products/{id}/inventory): the
\* decoded request is passed to the service as it is
RestUpdateInventory(c, id, quantity_change, operation_id, operation_type) ==
    /\ SvcUpdateInventory(c, id, quantity_change, operation_id, operation_type)
    /\ via' = [via EXCEPT ![c] = [transport |-> "rest",
                                  operationID |-> operation_id]]

\* ProductServer.UpdateInventory (gRPC): the request's fields are passed to
\* the service as they are
GrpcUpdateInventory(c, ProductId, QuantityChange, OperationId, OperationType) ==
    /\ SvcUpdateInventory(c, ProductId, QuantityChange, OperationId,
                          OperationType)
    /\ via' = [via EXCEPT ![c] = [transport |-> "grpc",
                                  operationID |-> OperationId]]

\* CreateProduct called with every product of ProductInputs and product
\* ids of P, fresh or not
CreateStep(P) == \E p \in P, in \in ProductInputs : CreateProduct(p, in)

\* CreateProduct called with valid products that get a fresh _id, and the
\* calls C of UpdateInventory made with product ids of P, operation ids of
\* K and operation types of T
StepOf(C, P, K, T) ==
    \/ \E p \in P, in \in ValidInputs :
          ~products[p].exists /\ CreateProduct(p, in)
    \/ \E c \in C, p \in P, d \in Deltas, k \in K, t \in T :
          SvcUpdateInventory(c, p, d, k, t) /\ UNCHANGED via
    \/ \E c \in C : SvcCheckStock(c)
    \/ \E c \in C : RepoFindOperation(c)
    \/ \E c \in C : RepoFindOneAndUpdate(c)
    \/ \E c \in C : RepoSetInStock(c)
    \/ \E c \in C : RepoCommit(c)
    \/ \E c \in C : RepoFail(c)

Step(P, K, T) == StepOf(Calls, P, K, T)

\* UpdateProduct called with product ids of P and products of U
CatalogStep(P, U) ==
    \/ \E u \in Updaters, p \in P, product \in U :
          UpdateProductRead(u, p, product)
    \/ \E u \in Updaters : UpdateProductReplace(u)

\* one product, adjusted by callers using every operation id and type
Next == Step({"p1"}, OperationIDs, OperationTypes)

Spec == Init /\ [][Next]_vars

\* one product, adjusted and updated concurrently
NextCatalog ==
    \/ Step({"p1"}, {"", "op1"}, {"purchase", "restock"})
    \/ CatalogStep({"p1"}, SkuUpdates)

SpecCatalog == Init /\ [][NextCatalog]_vars

\* two products, adjusted by callers sharing one operation id
NextShop == Step(ProductIDs, {"op1"}, {"purchase", "adjustment"})

SpecShop == Init /\ [][NextShop]_vars

\* one product, adjusted with and without a key while callers ask for its
\* stock
NextStock ==
    \/ Step({"p1"}, {"", "op1"}, {"purchase", "restock"})
    \/ \E p \in {"p1"}, q \in StockRequests : CheckStockCall(p, q)

SpecStock == Init /\ [][NextStock]_vars

\* one product, created and then updated with every choice of fields
NextUpdate ==
    \/ \E p \in {"p1"}, in \in ValidInputs :
          ~products[p].exists /\ CreateProduct(p, in)
    \/ CatalogStep({"p1"}, UpdateInputs)

SpecUpdate == Init /\ [][NextUpdate]_vars

\* one product, adjusted by MaxCalls + MaxReplays purchase calls that use
\* two keys
NextReplay == StepOf(AllCalls, {"p1"}, {"op1", "op2"}, {"purchase"})

SpecReplay == Init /\ [][NextReplay]_vars

\* two products, reservations and releases with the key op1 or without one
NextFrame == Step(ProductIDs, {"", "op1"}, {"reservation", "release"})

SpecFrame == Init /\ [][NextFrame]_vars

\* the statements of the repository call c: the store serves each of them
\* or the WriteTimeout deadline of the call's context ends it
RepoStep(c) ==
    \/ RepoFindOperation(c)
    \/ RepoFindOneAndUpdate(c)
    \/ RepoSetInStock(c)
    \/ RepoCommit(c)
    \/ RepoFail(c)

\* one product, purchases with the key op1 or without one, and a store that
\* does not leave a statement of a started call unanswered for ever
NextLive == Step({"p1"}, {"", "op1"}, {"purchase"})

SpecLive ==
    Init /\ [][NextLive]_vars /\ \A c \in Calls : WF_vars(RepoStep(c))

\* products created with a fresh id, and ListProducts requests made of the
\* service, of the REST handler and of the gRPC handler
NextList ==
    \/ \E p \in ProductIDs, in \in ValidInputs :
          ~products[p].exists /\ CreateProduct(p, in)
    \/ \E page \in Pages, pageSize \in PageSizes, inStockOnly \in BOOLEAN :
          SvcListProducts(page, pageSize, inStockOnly)
    \/ \E pageValue \in QueryValues, pageSizeValue \in QueryValues,
          inStockOnly \in BOOLEAN :
          RestListProducts(pageValue, pageSizeValue, inStockOnly)
    \/ \E page \in Pages, pageSize \in PageSizes, inStockOnly \in BOOLEAN :
          GrpcListProducts(page, pageSize, inStockOnly)

SpecList == Init /\ [][NextList]_vars

\* one product, and purchases that clients make through the REST and gRPC
\* handlers with the key op1 or without one
NextTransport ==
    \/ \E p \in {"p1"}, in \in ValidInputs :
          ~products[p].exists /\ CreateProduct(p, in)
    \/ \E c \in Calls, d \in Deltas, k \in {"", "op1"} :
          RestUpdateInventory(c, "p1", d, k, "purchase")
    \/ \E c \in Calls, d \in Deltas, k \in {"", "op1"} :
          GrpcUpdateInventory(c, "p1", d, k, "purchase")
    \/ \E c \in Calls : SvcCheckStock(c)
    \/ \E c \in Calls : RepoStep(c)

SpecTransport == Init /\ [][NextTransport]_vars

\* products created by callers that pass any product and any id
NextCreate == CreateStep(ProductIDs)

SpecCreate == Init /\ [][NextCreate]_vars

\* ------------------------------------------------------------ properties
Started == {c \in Calls : pc[c] # "idle"}
Done == {c \in Calls : pc[c] = "done"}

\* the calls that reached ProductRepository.UpdateInventory with key k
RepoCallsWith(k) ==
    {c \in Started : trace[c].repoCalled /\ args[c].operationID = k}

\* the calls whose transaction committed an increment of product p
AppliedOn(p) == {c \in Calls : trace[c].applied /\ args[c].productID = p}

RECURSIVE SumDeltas(_)
SumDeltas(S) ==
    IF S = {} THEN 0
    ELSE LET c == CHOOSE x \in S : TRUE
         IN  args[c].quantityChange + SumDeltas(S \ {c})

\* C1 -- idempotence of adjust: when every repository call made with a
\* non-empty key carries the same (product, delta, type), all of them have
\* returned, at least one returned success and no call with another key
\* changed the product, the product's quantity is its creation quantity
\* plus delta (applied exactly once) and the ledger holds exactly one entry
\* for the key.
IdempotentAdjust ==
    \A k \in OperationIDs \ {""} :
        LET S == RepoCallsWith(k)
        IN  ( /\ S # {}
              /\ S \subseteq Done
              /\ \A c, d \in S : args[c] = args[d]
              /\ \E c \in S : ret[c].err = ""
              /\ \A c \in S : AppliedOn(args[c].productID) \subseteq S )
            => \A c \in S :
                  /\ Cardinality(FindOperation(k)) = 1
                  /\ products[args[c].productID].quantity =
                        created[args[c].productID].quantity + args[c].quantityChange
                  /\ Cardinality(AppliedOn(args[c].productID)) = 1

\* C1 witness: two calls with the same key and arguments have both returned
\* success, the second one after the first had returned.
WitnessIdempotentAdjust ==
    \E c, d \in Done :
        /\ c # d
        /\ args[c] = args[d]
        /\ args[c].operationID # ""
        /\ ret[c].err = "" /\ ret[d].err = ""
        /\ c \in trace[d].after

\* the product was created with a well-formed inventory
WellFormedAtCreation(p) ==
    /\ created[p].quantity >= 0
    /\ created[p].reserved >= 0
    /\ created[p].reserved <= created[p].quantity

\* every stock-decreasing call on p went through the facade pre-check
DecreasesPreChecked(p) ==
    \A c \in Started :
        (args[c].productID = p /\ args[c].quantityChange < 0
           /\ args[c].operationType # "refund")
        => args[c].operationType \in {"purchase", "reservation"}

\* C2 -- no oversell: a product created with a well-formed inventory, all
\* of whose stock-decreasing requests are purchases or reservations, never
\* has a negative committed quantity.
NoOversell ==
    \A p \in ProductIDs :
        (products[p].exists /\ WellFormedAtCreation(p) /\ DecreasesPreChecked(p))
        => products[p].quantity >= 0

\* C3 -- derived-flag consistency: every committed product document has
\* inStock = (quantity > 0), whatever CreateProduct, UpdateProduct and
\* UpdateInventory calls have run or are in progress.
DerivedFlagConsistent ==
    \A p \in ProductIDs :
        products[p].exists => (products[p].inStock = (products[p].quantity > 0))

\* C3 witness: an adjustment has committed a quantity that flips the flag
\* the product was created with, an UpdateProduct has replaced the document,
\* and another transaction has applied its increment privately without
\* having recomputed the flag yet.
WitnessDerivedFlag ==
    \E c, d \in Calls, u \in Updaters :
        /\ trace[c].applied
        /\ products[args[c].productID].inStock # created[args[c].productID].inStock
        /\ upd[u].pc = "done"
        /\ pc[d] = "flag"
        /\ txn[d].local.inStock # (txn[d].local.quantity > 0)

\* C4 -- concurrent same-key race: when two calls with the same non-empty
\* key on the same product both found the key unused (they raced), one of
\* them applied the delta and the other met no store failure, the other
\* returns success without applying, with the committed post-write snapshot.
SameKeyRaceLoserSucceeds ==
    \A c, d \in Done :
        ( /\ c # d
          /\ args[c].operationID # ""
          /\ args[c].operationID = args[d].operationID
          /\ args[c].productID = args[d].productID
          /\ trace[c].novel /\ trace[d].novel
          /\ trace[c].applied
          /\ ret[d].err # ErrDeadline )
        => /\ ret[d].err = ""
           /\ ~trace[d].applied
           /\ ret[d].inventory.quantity =
                 created[args[c].productID].quantity + args[c].quantityChange

\* C5 -- concurrent disjoint keys: when all MaxCalls calls reached the
\* repository for the same existing product with pairwise distinct
\* non-empty keys and none met a store failure, the quantity is the
\* creation quantity plus the sum of the deltas and the ledger holds one
\* entry per call.
DisjointKeysAllApplied ==
    ( /\ Done = Calls
      /\ \A c \in Calls :
            /\ trace[c].repoCalled
            /\ args[c].operationID # ""
            /\ args[c].productID = args[1].productID
            /\ ret[c].err \notin {ErrDeadline, ErrNoDocuments}
      /\ \A c, d \in Calls : c # d => args[c].operationID # args[d].operationID )
    => /\ products[args[1].productID].quantity =
             created[args[1].productID].quantity + SumDeltas(Calls)
       /\ Cardinality(ledger) = Cardinality(Calls)

\* C6 -- ledger key uniqueness: the ledger never holds two entries with the
\* same non-empty operation id.
LedgerKeyUnique ==
    \A k \in OperationIDs \ {""} : Cardinality(FindOperation(k)) <= 1

\* the earlier successful calls that call c repeats identically
RetryOf(c) ==
    {d \in trace[c].after : ret[d].err = "" /\ args[d] = args[c]}

\* C7 -- safe retry through the facade: a call that repeats, with a
\* non-empty key, a call that already succeeded, and meets no store
\* failure, succeeds, changes no quantity and leaves exactly one ledger
\* entry for the key.
RetrySucceeds ==
    \A c \in Done :
        ( /\ args[c].operationID # ""
          /\ RetryOf(c) # {}
          /\ ret[c].err # ErrDeadline )
        => /\ ret[c].err = ""
           /\ ~trace[c].applied
           /\ Cardinality(FindOperation(args[c].operationID)) = 1

\* C8 -- insufficient stock: a purchase or reservation with a negative
\* delta reaches the repository only through the pre-check; when the
\* pre-check reads quantity - reserved < -delta the call fails with the
\* insufficient-stock error and a nil snapshot and the step changes neither
\* the products nor the ledger; a call so refused never entered the
\* repository, created no ledger entry and changed no quantity.
InsufficientStockRejected ==
    /\ [][\A c \in Calls :
            LET p == products[args[c].productID]
            IN  ( /\ pc[c] = "check"
                  /\ pc'[c] # "check"
                  /\ p.exists
                  /\ p.quantity - p.reserved < 0 - args[c].quantityChange )
                => /\ pc'[c] = "done"
                   /\ ret'[c].err = ErrInsufficientStock
                   /\ ret'[c].nil
                   /\ products' = products
                   /\ ledger' = ledger]_vars
    /\ [](\A c \in Started :
            /\ ( /\ args[c].operationType \in {"purchase", "reservation"}
                 /\ args[c].quantityChange < 0
                 /\ trace[c].repoCalled )
               => trace[c].checked
            /\ ret[c].err = ErrInsufficientStock
               => /\ pc[c] = "done"
                  /\ ~trace[c].repoCalled
                  /\ ~trace[c].novel
                  /\ ~trace[c].applied
                  /\ \A e \in ledger : e.id # c)

\* C8 witness: a purchase or reservation has been refused for insufficient
\* stock on a product that exists.
WitnessInsufficientStock ==
    \E c \in Done :
        /\ ret[c].err = ErrInsufficientStock
        /\ products[args[c].productID].exists
        /\ args[c].operationType \in {"purchase", "reservation"}
        /\ trace[c].avail < 0 - args[c].quantityChange

\* the step by which the repository call of c returns an error
RepoFails(c) ==
    /\ pc[c] \in {"find", "inc", "flag", "commit"}
    /\ pc'[c] = "done"
    /\ ret'[c].err # ""

InvalidOperationRejected ==
    \A c \in Started :
        args[c].operationType \notin
            {"purchase", "restock", "reservation", "release", "adjustment"}
        => /\ pc[c] = "done"
           /\ ret[c].err = ErrInvalidOperation
           /\ ret[c].nil
           /\ ~trace[c].checked
           /\ ~trace[c].repoCalled
           /\ ~trace[c].novel
           /\ ~trace[c].applied
           /\ \A e \in ledger : e.id # c

\* C10 witness: a call with an unknown operation type has been refused
\* while the product it names exists.
WitnessInvalidOperation ==
    \E c \in Done :
        /\ args[c].operationType = "refund"
        /\ ret[c].err = ErrInvalidOperation
        /\ products[args[c].productID].exists

\* C11 -- CheckStock result: a CheckStock call on a product that exists
\* returns no error, available = (quantity - reserved >= requested) and
\* currentAvailable = quantity - reserved of the committed document, the
\* latter also when available is false, and the step changes neither the
\* products nor the ledger.
CheckStockResult ==
    [][stock' # stock
       => LET p == products[stock'.productID]
          IN  /\ products' = products
              /\ ledger' = ledger
              /\ p.exists
                 => /\ stock'.err = ""
                    /\ stock'.available =
                          (p.quantity - p.reserved >= stock'.quantity)
                    /\ stock'.current = p.quantity - p.reserved]_vars

\* C11 witness: CheckStock has refused a request on a product that has
\* reserved units and reported what is left of it, after an adjustment
\* had committed on that product.
WitnessCheckStock ==
    /\ stock.called
    /\ stock.err = ""
    /\ ~stock.available
    /\ stock.current = products[stock.productID].quantity
                          - products[stock.productID].reserved
    /\ products[stock.productID].reserved > 0
    /\ stock.current < products[stock.productID].quantity
    /\ \E c \in Calls : trace[c].applied

\* the calls that returned success and were made without a key
EmptyKeyOk == {c \in Done : args[c].operationID = "" /\ ret[c].err = ""}

\* C12 -- empty-key opt-out: every call without a key that returned success
\* applied its delta; when the successful calls without a key are
\* identical and no other call changed their product, its quantity is the
\* creation quantity plus n * delta, n the number of those calls.
EmptyKeyNoDedup ==
    /\ \A c \in EmptyKeyOk : trace[c].applied
    /\ ( /\ EmptyKeyOk # {}
         /\ \A c, d \in EmptyKeyOk : args[c] = args[d]
         /\ \A c \in EmptyKeyOk : AppliedOn(args[c].productID) \subseteq EmptyKeyOk )
       => \A c \in EmptyKeyOk :
             products[args[c].productID].quantity =
                created[args[c].productID].quantity
                   + Cardinality(EmptyKeyOk) * args[c].quantityChange

\* C12 witness: two identical calls without a key have both returned
\* success, the second one after the first had returned.
WitnessEmptyKey ==
    \E c, d \in EmptyKeyOk :
        /\ c # d
        /\ args[c] = args[d]
        /\ c \in trace[d].after
        /\ products[args[c].productID].quantity =
              created[args[c].productID].quantity + 2 * args[c].quantityChange

\* C13 -- one ledger entry per committed adjustment: every call whose
\* transaction committed a quantity change, with or without a key, has
\* exactly one entry of its own in the ledger, inserted by the committing
\* step, and no step removes or changes a ledger entry.
OneEntryPerCommit ==
    /\ [](\A c \in Calls :
            trace[c].applied => Cardinality({e \in ledger : e.id = c}) = 1)
    /\ [][ledger \subseteq ledger']_vars

\* C14 -- reserved bound: every committed product document has
\* 0 <= reserved <= quantity.
ReservedBound ==
    \A p \in ProductIDs :
        products[p].exists
        => /\ 0 <= products[p].reserved
           /\ products[p].reserved <= products[p].quantity

\* C15 -- only the coordinator mutates inventory: the step by which
\* UpdateProduct replaces the document leaves the committed quantity,
\* reserved and inStock of every product as they were, whatever
\* UpdateInventory committed since UpdateProduct read the document.
UpdateProductKeepsInventory ==
    [][\A u \in Updaters :
          (upd[u].pc = "replace" /\ upd'[u].pc = "done")
          => \A p \in ProductIDs :
                /\ products'[p].quantity = products[p].quantity
                /\ products'[p].reserved = products[p].reserved
                /\ products'[p].inStock = products[p].inStock]_vars

\* C16 -- creation validation: a CreateProduct call given an empty name, a
\* price <= 0, an empty category or an empty SKU has returned a validation
\* error without calling the repository, with the message of the first
\* failing check in the order name, price, category, SKU; and the step of a
\* call that returns a validation error stores nothing.
CreationValidated ==
    /\ [](createRet.called
          => LET r == createRet
                 Refused(msg) == /\ r.kind = "validation error"
                                 /\ r.err = msg
                                 /\ ~r.repoCalled
             IN  /\ r.name = "" => Refused("product name is required")
                 /\ (r.name # "" /\ r.price <= 0)
                    => Refused("product price must be greater than zero")
                 /\ (r.name # "" /\ r.price > 0 /\ r.category = "")
                    => Refused("product category is required")
                 /\ (r.name # "" /\ r.price > 0 /\ r.category # ""
                       /\ r.sku = "")
                    => Refused("product SKU is required"))
    /\ [][(createRet' # createRet /\ createRet'.kind = "validation error")
            => /\ products' = products
               /\ created' = created]_vars

\* C16 witness: a product with an empty name and a price of zero has been
\* refused for its name while a product created before is stored.
WitnessCreationValidated ==
    /\ createRet.called
    /\ createRet.name = "" /\ createRet.price <= 0
    /\ createRet.err = "product name is required"
    /\ \E p \in ProductIDs : products[p].exists

\* a product that supplies name, description and price and nothing else
OnlyNameDescriptionPrice(product) ==
    /\ product.name # "" /\ product.description # "" /\ product.price > 0
    /\ product.category = "" /\ product.tags = {} /\ product.sku = ""
    /\ ~product.active

\* C17 -- partial update: the step by which an UpdateProduct call given
\* only name, description and price replaces the document stores these
\* three values and leaves category, tags and the active flag of the
\* stored product as they were.
PartialUpdate ==
    [][\A u \in Updaters :
          ( /\ upd[u].pc = "replace"
            /\ upd'[u].pc = "done"
            /\ OnlyNameDescriptionPrice(upd[u].product) )
          => LET p == upd[u].productID
             IN  /\ products'[p].name = upd[u].product.name
                 /\ products'[p].description = upd[u].product.description
                 /\ products'[p].price = upd[u].product.price
                 /\ products'[p].category = products[p].category
                 /\ products'[p].tags = products[p].tags
                 /\ products'[p].active = products[p].active]_vars

\* C18 -- SKU is set once: every stored product has the SKU it was created
\* with.
SkuSetOnce ==
    \A p \in ProductIDs : products[p].exists => products[p].sku = created[p].sku

\* C19 -- NotFound: an UpdateInventory call on a product id that does not
\* exist, whatever its type, delta and key, that met no store failure has
\* returned a not-found error and left no ledger entry; a CheckStock call
\* on such an id has returned a not-found error of the same kind.
NotFoundSurfaced ==
    /\ \A c \in Done :
          ( /\ ~products[args[c].productID].exists
            /\ args[c].operationType \in validOperationTypes
            /\ ret[c].err # ErrDeadline )
          => /\ IsNotFound(ret[c].err)
             /\ \A e \in ledger : e.id # c
    /\ (stock.called /\ ~products[stock.productID].exists)
       => IsNotFound(stock.err)

\* C20 as claimed -- replay returns the same snapshot: any two successful
\* calls with the same product and the same non-empty key have returned
\* the same snapshot.
ReplaySameSnapshot ==
    \A c, d \in AllCalls :
        ( /\ pc[c] = "done" /\ pc[d] = "done"
          /\ args[c].operationID # ""
          /\ args[c].operationID = args[d].operationID
          /\ args[c].productID = args[d].productID
          /\ ret[c].err = "" /\ ret[d].err = "" )
        => ret[c].inventory = ret[d].inventory

\* the calls, of all MaxCalls + MaxReplays, that committed an increment of p
Committed(p) == {c \in AllCalls : trace[c].applied /\ args[c].productID = p}

\* C20 as amended -- a call that finds its key recorded returns the
\* snapshot of the product committed at that moment, without applying its
\* delta and without writing; so the successful calls made with one
\* (product, non-empty key) pair have returned the same snapshot as long as
\* no other adjustment has committed on the product.
ReplayReturnsCurrent ==
    /\ [][\A c \in AllCalls :
            (pc[c] = "find" /\ pc'[c] = "done" /\ ret'[c].err = "")
            => /\ ret'[c].inventory = InventoryInfo(products[args[c].productID])
               /\ ~trace'[c].applied
               /\ products' = products
               /\ ledger' = ledger]_vars
    /\ [](\A c, d \in AllCalls :
            ( /\ pc[c] = "done" /\ pc[d] = "done"
              /\ args[c].operationID # ""
              /\ args[c].operationID = args[d].operationID
              /\ args[c].productID = args[d].productID
              /\ ret[c].err = "" /\ ret[d].err = ""
              /\ Cardinality(Committed(args[c].productID)) = 1 )
            => ret[c].inventory = ret[d].inventory)

\* C20 witness: a call has applied its delta and two later calls have
\* repeated it with the same key, each returning the snapshot the first
\* one returned.
WitnessReplay ==
    \E c, d, e \in AllCalls :
        /\ c # d /\ d # e /\ c # e
        /\ pc[c] = "done" /\ pc[d] = "done" /\ pc[e] = "done"
        /\ args[c] = args[d] /\ args[d] = args[e]
        /\ args[c].operationID # ""
        /\ trace[c].applied
        /\ c \in trace[d].after /\ d \in trace[e].after
        /\ ret[d].err = "" /\ ret[e].err = ""
        /\ ret[d].inventory = ret[c].inventory
        /\ ret[e].inventory = ret[c].inventory
        /\ ret[c].inventory.quantity # created[args[c].productID].quantity

\* C21 -- pre-check gating: a call with a valid type is at or past the
\* CheckStock pre-check exactly when its type is purchase or reservation
\* and its delta is negative; such a call enters the repository only after
\* the pre-check, any other call enters it at once without a stock read;
\* and the pre-check lets the call through exactly when quantity -
\* reserved of the committed document is at least -delta.
PreCheckGating ==
    /\ [](\A c \in Started :
            args[c].operationType \in
                {"purchase", "restock", "reservation", "release", "adjustment"}
            => LET gated == /\ args[c].operationType \in {"purchase", "reservation"}
                            /\ args[c].quantityChange < 0
               IN  /\ ~gated
                      => /\ ~trace[c].checked
                         /\ pc[c] # "check"
                         /\ trace[c].repoCalled
                   /\ gated
                      => /\ (pc[c] = "check") = (~trace[c].checked)
                         /\ trace[c].repoCalled => trace[c].checked
                   /\ pc[c] = "check"
                      => /\ ~trace[c].repoCalled
                         /\ ~trace[c].novel
                         /\ ~trace[c].applied)
    /\ [][\A c \in Calls :
            LET p == products[args[c].productID]
            IN  (pc[c] = "check" /\ pc'[c] # "check" /\ p.exists)
                => /\ trace'[c].repoCalled =
                         (p.quantity - p.reserved >= 0 - args[c].quantityChange)
                   /\ trace'[c].avail = p.quantity - p.reserved
                   /\ products' = products]_vars

\* C21 witness: a reservation with a negative delta has passed the
\* pre-check and committed, and a restock with a negative delta has
\* committed without a stock read.
WitnessPreCheckGating ==
    \E c, d \in Done :
        /\ args[c].operationType = "reservation"
        /\ args[c].quantityChange < 0
        /\ trace[c].checked /\ trace[c].applied
        /\ args[d].operationType = "restock"
        /\ args[d].quantityChange < 0
        /\ ~trace[d].checked /\ trace[d].applied

\* the sum of the deltas of the ledger entries S
RECURSIVE SumEntries(_)
SumEntries(S) ==
    IF S = {} THEN 0
    ELSE LET e == CHOOSE x \in S : TRUE
         IN  e.quantity_change + SumEntries(S \ {e})

\* C22 -- ledger/quantity conservation: a product all of whose adjustment
\* calls carried a non-empty key has, in every state, the quantity it was
\* created with plus the sum of the deltas of the ledger entries recorded
\* for it.
LedgerConservation ==
    \A p \in ProductIDs :
        ( /\ products[p].exists
          /\ \A c \in Started :
                args[c].productID = p => args[c].operationID # "" )
        => products[p].quantity =
              created[p].quantity
                 + SumEntries({e \in ledger : e.product_id = p})

\* C23 -- post-adjustment result: the step by which a call commits on a
\* product of committed quantity q returns success with a snapshot of
\* quantity q + delta and inStock = (q + delta > 0), and that snapshot is
\* the inventory the step commits.
PostAdjustmentResult ==
    [][\A c \in Calls :
          (pc[c] = "commit" /\ pc'[c] = "done" /\ ret'[c].err = "")
          => LET p == args[c].productID
                 q == products[p].quantity
             IN  /\ ~ret'[c].nil
                 /\ ret'[c].inventory.quantity = q + args[c].quantityChange
                 /\ ret'[c].inventory.inStock = (q + args[c].quantityChange > 0)
                 /\ ret'[c].inventory = InventoryInfo(products'[p])]_vars

\* C23 witness: a restock of a product created with quantity 0 has
\* returned a positive quantity and inStock true, and a later call has
\* brought the product back to quantity 0 and returned inStock false.
WitnessPostAdjustment ==
    \E c, d \in Done :
        /\ c \in trace[d].after
        /\ args[c].operationType = "restock"
        /\ created[args[c].productID].quantity = 0
        /\ trace[c].applied /\ trace[d].applied
        /\ ret[c].inventory.quantity > 0
        /\ ret[c].inventory.inStock
        /\ ret[d].inventory.quantity = 0
        /\ ~ret[d].inventory.inStock

\* C24 -- creation defaults: every step that creates a product stores it
\* with active = TRUE, creation and update timestamps that are not the zero
\* time, an id that is not the zero id, and inStock = (quantity > 0),
\* whatever active and inStock flags the caller passed; and a CreateProduct
\* call that returns success has stored such a product.
CreationDefaults ==
    [][/\ \A p \in ProductIDs :
            (~products[p].exists /\ products'[p].exists)
            => /\ products'[p].active
               /\ products'[p].createdAt # ZeroTime
               /\ products'[p].updatedAt # ZeroTime
               /\ products'[p].id # ""
               /\ products'[p].inStock = (products'[p].quantity > 0)
               /\ createRet'.called /\ createRet'.err = ""
       /\ (createRet' # createRet /\ createRet'.err = "")
          => \E p \in ProductIDs : ~products[p].exists /\ products'[p].exists
      ]_vars

\* C24 witness: a caller that passed active = FALSE and inStock = TRUE with
\* a quantity of zero has created the only product, which is stored active
\* and out of stock.
WitnessCreationDefaults ==
    /\ createRet.called /\ createRet.err = ""
    /\ ~createRet.active /\ createRet.inStock
    /\ \E p \in ProductIDs :
          /\ products[p].exists /\ products[p].quantity = 0
          /\ products[p].active /\ ~products[p].inStock
          /\ \A q \in ProductIDs \ {p} : ~products[q].exists

\* C25 -- key lookup ignores the product: when the ledger holds an entry
\* with a non-empty key for a product A, the repository adjustment of a call
\* made with that key for another existing product B ends at its lookup:
\* it applies no delta, inserts no ledger entry and returns the inventory B
\* has at that moment as a success, unless the store fails the lookup.
KeyLookupIgnoresProduct ==
    [][\A c \in Calls :
          ( /\ pc[c] = "find" /\ pc'[c] # "find"
            /\ products[args[c].productID].exists
            /\ \E e \in ledger : /\ e.operation_id = args[c].operationID
                                 /\ e.product_id # args[c].productID )
          => /\ pc'[c] = "done"
             /\ products' = products
             /\ ledger' = ledger
             /\ ~trace'[c].novel /\ ~trace'[c].applied
             /\ \/ ret'[c] = Ok(products[args[c].productID])
                \/ ret'[c] = Fail(ErrDeadline)]_vars

\* C25 witness: a call has applied a delta on one product, and a later call
\* with the same key and a delta on the other product has returned that
\* product's inventory, unchanged since its creation, with one ledger entry.
WitnessKeyLookup ==
    \E c, d \in Done :
        /\ c \in trace[d].after
        /\ args[c].operationID # ""
        /\ args[c].operationID = args[d].operationID
        /\ args[c].productID # args[d].productID
        /\ args[d].quantityChange # 0
        /\ trace[c].applied /\ ~trace[d].applied
        /\ ret[d].err = ""
        /\ ret[d].inventory = InventoryInfo(products[args[d].productID])
        /\ products[args[d].productID].quantity
              = created[args[d].productID].quantity
        /\ Cardinality(ledger) = 1

\* the fields of a product document other than quantity, inStock and the
\* update timestamp (ver is the store's stamp, not a field)
FrameOf(doc) ==
    [doc EXCEPT !.quantity = 0, !.inStock = FALSE, !.updatedAt = ZeroTime,
                !.ver = 0]

\* C26 -- frame of an adjustment: every step of an UpdateInventory call on
\* a product P, whatever its operation type, leaves every other product as
\* it is and changes nothing of P except quantity, inStock and the update
\* timestamp; reserved and SKU in particular stay as they are.
AdjustmentFrame ==
    [][\A c \in Calls :
          (pc[c] \notin {"idle", "done"} /\ pc'[c] # pc[c])
          => LET P == args[c].productID
             IN  /\ \A q \in ProductIDs \ {P} : products'[q] = products[q]
                 /\ FrameOf(products'[P]) = FrameOf(products[P])
                 /\ products'[P].reserved = products[P].reserved
                 /\ products'[P].sku = products[P].sku]_vars

\* C26 witness: a release has raised the quantity of a product that keeps
\* its reserved unit and its SKU, a reservation has lowered the quantity of
\* the other product, and both products differ from each other only in
\* their inventory.
WitnessAdjustmentFrame ==
    \E c, d \in Done :
        LET P == args[c].productID
            Q == args[d].productID
        IN  /\ P # Q
            /\ args[c].operationType = "release"
            /\ args[d].operationType = "reservation"
            /\ trace[c].applied /\ trace[d].applied
            /\ ret[c].err = "" /\ ret[d].err = ""
            /\ products[P].quantity = created[P].quantity + 1
            /\ products[Q].quantity = created[Q].quantity - 1
            /\ products[P].reserved = 1 /\ created[P].reserved = 1
            /\ products[P].sku = created[P].sku /\ products[P].sku # ""
            /\ FrameOf(products[Q]) = FrameOf(created[Q])

\* the repository call of c has started and has not returned
InRepository(c) == pc[c] \in {"find", "inc", "flag", "commit"}

PaginationDefaults ==
    list.called
    => /\ list.queryPageSize > 0
       /\ list.queryPage >= 0
       /\ list.paged => /\ list.divisor > 0
                        /\ list.divisor = list.queryPageSize
                        /\ ~list.panic

\* C29 -- transport supplies a key: every call the REST or the gRPC
\* UpdateInventory handler has made into ProductService.UpdateInventory
\* carries a non-empty operation id, also when the client's request had none.
TransportSuppliesKey ==
    \A c \in Started :
        via[c].transport \in {"rest", "grpc"} => args[c].operationID # ""

\* the query of every ListProducts request has a positive page size and a
\* page that is not negative
QueryDefaults ==
    list.called => list.queryPageSize > 0 /\ list.queryPage >= 0
====
